---------------------------- MODULE Spec2Model ----------------------------
(***************************************************************************)
(* A model of the cisTEM 2D classification protocol CistemProtRefine2D     *)
(* (src/cistem/protocols/protocol_refine2d.py): the steps it inserts, the  *)
(* serial execution of those steps, the fan-out of one refine2d process    *)
(* per particle block, the merge of the per-block parameter tables, the    *)
(* continuation from a previous run and the two ramp functions.            *)
(*                                                                         *)
(* File names are sequences of tokens: a literal fragment of the template  *)
(* is one token and every formatted digit is one token, so two names are   *)
(* equal exactly when the formatted strings are equal.                     *)
(* Real numbers (percentages, resolution limits) are exact rationals       *)
(* [num, den] with den > 0.                                                *)
(***************************************************************************)
EXTENDS Integers, Sequences, FiniteSets, TLC

VARIABLES
    cfg,           \* the form parameters and the size of the input particle set
    prior,         \* the previous run selected by continueRun (its extra directory)
    stepStatus,    \* status of every inserted step, by step id
    steps,         \* the steps inserted by _insertAllSteps
    initIter,      \* self.initIter
    finalIter,     \* self.finalIter
    currPtcl,      \* self.currPtcl
    phase,         \* position inside the running refineParallelStep
    jobs_list,     \* refineParallelStep's jobs_list: one command per block
    process_list,  \* _parallelWorker's process_list: the pids it launched
    procs,         \* operating-system processes ever launched, by pid <<iter, block>>
    fs,            \* regular files of this run's extra directory: name -> lines
    links,         \* symbolic links of this run's extra directory: name -> target
    runLog,        \* every external job run so far, in order
    outputs,       \* the outputs registered by createOutputStep
    ramp,          \* inputs and results of the ramp functions (ramp specification)
    validation,    \* the form check: the configuration and the outcome of _validate
    resample,      \* the tilt-series resample protocol ProtTsResample
    unblur         \* the movie alignment protocol ProtUnblur

runVars == <<cfg, prior, stepStatus, steps, initIter, finalIter, currPtcl, phase,
             jobs_list, process_list, procs, fs, links, runLog, outputs>>

\* the state of the other specifications, left alone by a classification run
sideVars == <<validation, resample, unblur>>

vars == <<cfg, prior, stepStatus, steps, initIter, finalIter, currPtcl, phase,
          jobs_list, process_list, procs, fs, links, runLog, outputs, ramp,
          validation, resample, unblur>>

----------------------------------------------------------------------------
(* Bounds of the model. *)

MaxParticles == 3
MaxThreads == 2
MaxMpi == 3
MaxIters == 2
MaxPriorIters == 1
MaxBlockParticles == 12
MaxBlockJobs == 5
MaxTotal == 34
MaxCls == 2
MaxTiltSeries == 3
\* runTsResample steps of other instances in the same process
MaxOtherSteps == 1
MaxMovies == 2

----------------------------------------------------------------------------
(* Exact rational arithmetic for Python's float values. *)

Rat(n, d) == [num |-> n, den |-> d]

RInt(n) == Rat(n, 1)

RLe(a, b) == a.num * b.den <= b.num * a.den

RLt(a, b) == a.num * b.den < b.num * a.den

REq(a, b) == a.num * b.den = b.num * a.den

RAdd(a, b) == Rat(a.num * b.den + b.num * a.den, a.den * b.den)

RSub(a, b) == Rat(a.num * b.den - b.num * a.den, a.den * b.den)

RMul(a, b) == Rat(a.num * b.num, a.den * b.den)

RDiv(a, b) ==
    IF b.num > 0 THEN Rat(a.num * b.den, a.den * b.num)
                 ELSE Rat(0 - a.num * b.den, 0 - a.den * b.num)

RMin(a, b) == IF RLe(a, b) THEN a ELSE b

RMax(a, b) == IF RLe(b, a) THEN a ELSE b

SetMax(S) == CHOOSE x \in S : \A y \in S : y <= x

Max(a, b) == IF a >= b THEN a ELSE b

----------------------------------------------------------------------------
(* printf-style formatting and parsing of integers. *)

DigitChars == <<"0", "1", "2", "3", "4", "5", "6", "7", "8", "9">>

IsDigit(c) == \E i \in 1..10 : DigitChars[i] = c

DigitValue(c) == (CHOOSE i \in 1..10 : DigitChars[i] = c) - 1

RECURSIVE FormatD(_)
\* '%d' % n, for n >= 0
FormatD(n) ==
    IF n < 10 THEN <<DigitChars[n + 1]>>
              ELSE FormatD(n \div 10) \o <<DigitChars[(n % 10) + 1]>>

\* '%0<w>d' % n, for n >= 0
FormatZeroPad(n, w) ==
    LET s == FormatD(n)
    IN  IF Len(s) >= w THEN s ELSE [i \in 1..(w - Len(s)) |-> "0"] \o s

RECURSIVE ParseInt(_)
\* int(s) of a string of digits
ParseInt(s) ==
    IF Len(s) = 0 THEN 0
    ELSE 10 * ParseInt(SubSeq(s, 1, Len(s) - 1)) + DigitValue(s[Len(s)])

----------------------------------------------------------------------------
(* _createFilenameTemplates and _getFileName. *)

ParPrefix == "Refine2D/Parameters/classification_input_par_"

DumpPrefix == "Refine2D/ClassAverages/class_dump_file_"

DevNull == <<"/dev/null">>

FileName_run_stack(run) ==
    <<"Refine2D/ParticleStacks/particle_stack_">> \o FormatZeroPad(run, 2) \o <<".mrc">>

FileName_initial_cls == <<"Refine2D/ClassAverages/reference_averages.mrc">>

FileName_iter_cls(iter) ==
    <<"Refine2D/ClassAverages/class_averages_">> \o FormatZeroPad(iter, 4) \o <<".mrc">>

FileName_iter_par(iter) == <<ParPrefix>> \o FormatD(iter) \o <<".par">>

FileName_iter_par_block(iter, block) ==
    <<ParPrefix>> \o FormatD(iter) \o <<"_">> \o FormatD(block) \o <<".par">>

FileName_iter_cls_block(iter, block) ==
    <<DumpPrefix>> \o FormatD(iter) \o <<"_">> \o FormatD(block) \o <<".dump">>

FileName_iter_cls_block_seed(iter) ==
    <<DumpPrefix>> \o FormatD(iter) \o <<"_">> \o <<".dump">>

----------------------------------------------------------------------------
(* Lines of a parameter table.  A line is known by its first character:     *)
(* "C" for the header and for comment lines, " " for a particle's data row  *)
(* (written with '%7d', so it starts with a blank or a digit).              *)

HeaderLine == [first |-> "C", body |-> 0]

CommentLine == [first |-> "C", body |-> 0 - 1]

DataRow(i) == [first |-> " ", body |-> i]

StartsWithC(l) == l.first = "C"

IsDataRow(l) == l.first # "C"

DataRows(lines) == SelectSeq(lines, IsDataRow)

\* the rows first..last, in order (no row when last < first)
RowsOf(first, last) == [i \in 1..Max(last - first + 1, 0) |-> DataRow(first + i - 1)]

----------------------------------------------------------------------------
(* _calcHighResLimit and _calcPercUsed. *)

calcHighResLimit(iter_total, highRes1, highRes2) ==
    IF iter_total > 1
    THEN LET reachMaxHighResAtCycle ==
                 IF iter_total >= 4 THEN Rat(iter_total * 3, 4)
                                    ELSE RInt(iter_total)
         IN  IF RLe(reachMaxHighResAtCycle, RInt(iter_total))
             THEN highRes2
             ELSE RAdd(highRes1,
                       RMul(RDiv(RInt(iter_total),
                                 RSub(reachMaxHighResAtCycle, RInt(1))),
                            RSub(highRes2, highRes1)))
    ELSE highRes2

\* cap_to_100 with maximum as a ceiling: min, not max
cap_to_maximum(perc, maximum) ==
    LET capped == RMin(perc, RInt(100))
    IN  IF maximum = 100 THEN capped ELSE RMin(capped, RInt(maximum))

cap_to_100(perc, maximum) ==
    LET capped == RMin(perc, RInt(100))
    IN  IF maximum = 100 THEN capped ELSE RMax(capped, RInt(maximum))

calcPercUsed(iter_total, iter_done, numCls, numParts, percUsed, autoPerc) ==
    LET minPercUsed == percUsed
        calculated_perc == Rat(numCls * 300 * 100, numParts)
    IN  IF ~autoPerc THEN RMax(percUsed, minPercUsed)
        ELSE IF iter_total < 10 THEN RInt(100)
        ELSE IF iter_total < 20
             THEN IF iter_done < 5 THEN cap_to_100(calculated_perc, 100)
                  ELSE IF iter_done < iter_total - 5
                       THEN cap_to_100(calculated_perc, 30)
                       ELSE RInt(100)
        ELSE IF iter_total < 30
             THEN IF iter_done < 10 THEN cap_to_100(calculated_perc, 100)
                  ELSE IF iter_done < iter_total - 5
                       THEN cap_to_100(calculated_perc, 30)
                       ELSE RInt(100)
        ELSE IF iter_done < 15 THEN cap_to_100(calculated_perc, 100)
        ELSE IF iter_done < iter_total - 5 THEN cap_to_100(calculated_perc, 30)
        ELSE RInt(100)

----------------------------------------------------------------------------
(* _getJobsParams and prepareRefineStep. *)

\* Python's round(n / d): to the nearest integer, a half to the even one
PyRound(n, d) ==
    LET q == n \div d
        r == n % d
    IN  IF 2 * r < d THEN q
        ELSE IF 2 * r > d THEN q + 1
        ELSE IF q % 2 = 0 THEN q ELSE q + 1

\* getJobsParams counting the threads only
getJobsParamsThreadsOnly(c) ==
    LET jobs == c.numberOfThreads
        parts == c.numPtcls
    IN  [jobs |-> jobs,
         ptcls_per_job |-> IF parts - jobs < jobs THEN 1 ELSE PyRound(parts, jobs)]

getJobsParams(c) ==
    LET jobs == Max(c.numberOfThreads, c.numberOfMpi)
        parts == c.numPtcls
    IN  [jobs |-> jobs,
         ptcls_per_job |-> IF parts - jobs < jobs THEN 1 ELSE PyRound(parts, jobs)]

\* blockRange with self.currPtcl left at lastPart, not one past it
blockRangeSharedEnd(job, ptcls_per_job, numPtcls, curr) ==
    IF job = 1
    THEN [firstPart |-> 1,
          lastPart |-> 1 + ptcls_per_job,
          currPtcl |-> 1 + ptcls_per_job]
    ELSE LET firstPart == curr
             lastPart == IF firstPart + ptcls_per_job > numPtcls
                         THEN numPtcls
                         ELSE firstPart + ptcls_per_job
         IN  [firstPart |-> firstPart,
              lastPart |-> lastPart,
              currPtcl |-> lastPart]

\* blockRange with block 1 starting at self.currPtcl like the other blocks
blockRangeFromCounter(job, ptcls_per_job, numPtcls, curr) ==
    LET firstPart == curr
        lastPart == IF job # 1 /\ firstPart + ptcls_per_job > numPtcls
                    THEN numPtcls
                    ELSE firstPart + ptcls_per_job
    IN  [firstPart |-> firstPart,
         lastPart |-> lastPart,
         currPtcl |-> lastPart + 1]

\* the block [firstPart, lastPart] of a job and the value left in self.currPtcl
blockRange(job, ptcls_per_job, numPtcls, curr) ==
    IF job = 1
    THEN [firstPart |-> 1,
          lastPart |-> 1 + ptcls_per_job,
          currPtcl |-> (1 + ptcls_per_job) + 1]
    ELSE LET firstPart == curr
             lastPart == IF firstPart + ptcls_per_job > numPtcls
                         THEN numPtcls
                         ELSE firstPart + ptcls_per_job
         IN  [firstPart |-> firstPart,
              lastPart |-> lastPart,
              currPtcl |-> lastPart + 1]

blockOutputParams(iterN, job) == FileName_iter_par_block(iterN, job)

\* blockDumpFn left as _getParamsIteration set it: the dump file of block 1
blockDumpFnOfBlock1(iterN, job) == FileName_iter_cls_block(iterN, 1)

blockDumpFn(iterN, job) == FileName_iter_cls_block(iterN, job)

\* the command of one block (paramsDic after the update) and the new currPtcl
\* the iter_total argument of both ramp calls: self.finalIter
iterTotalArgument(finIter) == finIter

prepareRefineStep(c, finIter, curr, iterN, job, ptcls_per_job, paramsDic) ==
    LET b == blockRange(job, ptcls_per_job, c.numPtcls, curr)
        highRes == calcHighResLimit(iterTotalArgument(finIter),
                                    c.highResLimit1, c.highResLimit2)
        percUsed == calcPercUsed(iterTotalArgument(finIter), iterN - 1,
                                 c.numberOfClassAvg,
                                 c.numPtcls, c.percUsed, c.autoPerc)
    IN  [currPtcl |-> b.currPtcl,
         paramsDic |-> [paramsDic EXCEPT
                          !.output_params = blockOutputParams(iterN, job),
                          !.numberOfClassAvg = 0,
                          !.firstPart = b.firstPart,
                          !.lastPart = b.lastPart,
                          !.percUsed = RDiv(percUsed, RInt(100)),
                          !.highRes = highRes,
                          !.dump = "YES",
                          !.dumpFn = blockDumpFn(iterN, job)]]

\* getParamsIteration naming the iteration's own files as its inputs
getParamsIterationOwnInputs(c, iterN) ==
    [input_stack |-> FileName_run_stack(0),
     input_params |-> FileName_iter_par(iterN),
     input_cls |-> FileName_iter_cls(iterN),
     output_params |-> FileName_iter_par(iterN),
     output_cls |-> FileName_iter_cls(iterN),
     numberOfClassAvg |-> c.numberOfClassAvg,
     firstPart |-> 1,
     lastPart |-> 0,
     percUsed |-> RDiv(c.percUsed, RInt(100)),
     highRes |-> c.highResLimit1,
     dump |-> "NO",
     dumpFn |-> FileName_iter_cls_block(iterN, 1)]

getParamsIteration(c, iterN) ==
    [input_stack |-> FileName_run_stack(0),
     input_params |-> FileName_iter_par(iterN - 1),
     input_cls |-> FileName_iter_cls(iterN - 1),
     output_params |-> FileName_iter_par(iterN),
     output_cls |-> FileName_iter_cls(iterN),
     numberOfClassAvg |-> c.numberOfClassAvg,
     firstPart |-> 1,
     lastPart |-> 0,
     percUsed |-> RDiv(c.percUsed, RInt(100)),
     highRes |-> c.highResLimit1,
     dump |-> "NO",
     dumpFn |-> FileName_iter_cls_block(iterN, 1)]

----------------------------------------------------------------------------
(* The previous run and _getIterNumber / _lastIter. *)

\* _lastIter of a run with no parameter table: Python's None
None == 0 - 1

\* glob(self._iterTemplate): the names classification_input_par_*.par
globIterTemplate(names) ==
    {f \in names : Len(f) >= 2 /\ f[1] = ParPrefix /\ f[Len(f)] = ".par"}

\* regexKey: int of the group of r'input_par_(\d{1,2})', at most two digits
regexKey(f) ==
    IF Len(f) >= 3 /\ IsDigit(f[3]) THEN ParseInt(SubSeq(f, 2, 3))
                                    ELSE ParseInt(SubSeq(f, 2, 2))

\* _getIterNumber(-1): the greatest key, None when glob finds nothing
lastIter(names) ==
    LET files == globIterTemplate(names)
    IN  IF files = {} THEN None ELSE SetMax({regexKey(f) : f \in files})

\* The extra directory of a previous run that completed iterations 1..k and,
\* when stopped, was stopped while the blocks of iteration k+1 were running
\* (block 1 had already written its files).
PriorFiles(k, stopped) ==
    {FileName_run_stack(0)}
    \cup {FileName_iter_par(i) : i \in 1..k}
    \cup {FileName_iter_cls(i) : i \in 1..k}
    \cup (IF stopped THEN {FileName_iter_par_block(k + 1, 1),
                           FileName_iter_cls_block(k + 1, 1)}
                     ELSE {})

\* continueRun: whether a run is selected (the pointer allows null), whether
\* it is this run itself, and the files of its extra directory
NoPrior == [selected |-> FALSE, isSelf |-> FALSE, files |-> {}]

Priors ==
    {[selected |-> TRUE, isSelf |-> FALSE, files |-> PriorFiles(k, stopped)] :
        k \in 1..MaxPriorIters, stopped \in BOOLEAN}

Last == <<"last">>

\* a string int() accepts: decimal digits
IsNumber(s) == Len(s) >= 1 /\ \A k \in DOMAIN s : IsDigit(s[k])

\* the outcome of a call: the list it returns, or an exception
Returned(errors) == [raised |-> FALSE, errors |-> errors]

Raised == [raised |-> TRUE, errors |-> <<>>]

\* _validateContinue: continueRun._initialize() raises AttributeError on
\* None, int() raises ValueError, and an int or None compared with None
\* raises TypeError
validateContinue(c, p) ==
    IF ~p.selected THEN Raised
    ELSE LET last == lastIter(p.files)
         IN  IF c.continueIter # Last /\ ~IsNumber(c.continueIter) THEN Raised
             ELSE IF last = None THEN Raised
             ELSE LET continueIter == IF c.continueIter = Last
                                      THEN last
                                      ELSE ParseInt(c.continueIter)
                  IN  IF continueIter > last
                      THEN Returned(
                               <<"You can continue only from the iteration %01d or less">>)
                      ELSE Returned(<<>>)

\* _validate
validate(c, p) ==
    IF c.doContinue
    THEN LET errors == IF p.selected /\ p.isSelf
                       THEN <<"In Scipion you must create a new cisTEM run",
                              "and select the continue option rather than",
                              "select continue from the same run.",
                              "">>
                       ELSE <<>>
             continue == validateContinue(c, p)
         IN  IF continue.raised THEN Raised
                                ELSE Returned(errors \o continue.errors)
    ELSE Returned(<<>>)

----------------------------------------------------------------------------
(* _insertAllSteps: the list of steps, initIter and finalIter. *)

Step(name, iterN, paramsDic, prerequisites) ==
    [name |-> name, iterN |-> iterN, paramsDic |-> paramsDic,
     prerequisites |-> prerequisites]

insertContinueStep(c, p) ==
    IF c.doContinue
    THEN LET init == IF c.continueIter = Last THEN lastIter(p.files) + 1
                                              ELSE ParseInt(c.continueIter) + 1
         IN  [initIter |-> init,
              finalIter |-> init + c.numberOfIterations,
              steps |-> <<Step("continueStep", init, <<>>, {})>>]
    ELSE [initIter |-> 1,
          finalIter |-> 1 + c.numberOfIterations,
          steps |-> <<>>]

\* the steps of one iteration, appended to the steps inserted so far
insertRefineIterStep(c, iterN, sofar) ==
    LET paramsDic == getParamsIteration(c, iterN)
        n == Len(sofar)
    IN  IF iterN = 1
        THEN sofar \o <<Step("writeInitParStep", iterN, <<>>, {}),
                        Step("makeInitClassesStep", iterN, paramsDic, {n + 1})>>
        ELSE sofar \o <<Step("refineParallelStep", iterN, paramsDic, {}),
                        Step("mergeStep", iterN, <<>>, {n + 1})>>

RECURSIVE allItersStepsInclusive(_, _, _, _)
\* allItersSteps over range(initIter, finalIter + 1)
allItersStepsInclusive(c, iterN, finIter, sofar) ==
    IF iterN > finIter THEN sofar
    ELSE allItersStepsInclusive(c, iterN + 1, finIter,
                                insertRefineIterStep(c, iterN, sofar))

RECURSIVE allItersSteps(_, _, _, _)
\* the loop over _allItersN(): range(initIter, finalIter)
allItersSteps(c, iterN, finIter, sofar) ==
    IF iterN >= finIter THEN sofar
    ELSE allItersSteps(c, iterN + 1, finIter, insertRefineIterStep(c, iterN, sofar))

insertItersSteps(c, init, finIter, sofar) ==
    allItersSteps(c, init, finIter,
                  sofar \o <<Step("convertInputStep", 0, <<>>, {})>>)

insertAllSteps(c, p) ==
    LET cont == insertContinueStep(c, p)
        iters == insertItersSteps(c, cont.initIter, cont.finalIter, cont.steps)
    IN  [initIter |-> cont.initIter,
         finalIter |-> cont.finalIter,
         steps |-> iters \o <<Step("createOutputStep", 0, <<>>, {})>>]

----------------------------------------------------------------------------
(* The file system of the run's extra directory. *)

Binary == <<>>

WriteFile(f, name, content) ==
    [n \in DOMAIN f \cup {name} |-> IF n = name THEN content ELSE f[n]]

RemoveFiles(f, names) == [n \in DOMAIN f \ names |-> f[n]]

\* os.path.exists / open for reading, in the extra directory, links followed
Readable(name) ==
    \/ name = DevNull
    \/ name \in DOMAIN fs
    \/ name \in DOMAIN links /\ links[name].name \in prior.files

\* dumpPattern formatted with the number of the iteration before
dumpPatternPrevious(f, iterN) ==
    LET d == FormatD(iterN - 1)
    IN  {n \in DOMAIN f :
            /\ Len(n) > Len(d) + 2
            /\ n[1] = DumpPrefix
            /\ SubSeq(n, 2, Len(d) + 1) = d
            /\ n[Len(d) + 2] = "_"}

\* cleanPattern('Refine2D/ClassAverages/class_dump_file_%d_*' % iterN)
dumpPattern(f, iterN) ==
    LET d == FormatD(iterN)
    IN  {n \in DOMAIN f :
            /\ Len(n) > Len(d) + 2
            /\ n[1] = DumpPrefix
            /\ SubSeq(n, 2, Len(d) + 1) = d
            /\ n[Len(d) + 2] = "_"}

----------------------------------------------------------------------------
(* _mergeAllParFiles. *)

RECURSIVE mergeBlocksKeepHeaders(_, _, _, _, _)
\* mergeBlocks copying every line of a block, its header included
mergeBlocksKeepHeaders(f, outFn, iterN, block, numberOfBlocks) ==
    IF block > numberOfBlocks THEN [raised |-> FALSE, fs |-> f]
    ELSE LET parFn == FileName_iter_par_block(iterN, block)
         IN  IF parFn \notin DOMAIN f
             THEN [raised |-> TRUE, fs |-> f]
             ELSE mergeBlocksKeepHeaders(
                      RemoveFiles(WriteFile(f, outFn, f[outFn] \o f[parFn]), {parFn}),
                      outFn, iterN, block + 1, numberOfBlocks)

RECURSIVE mergeBlocksSkipMissing(_, _, _, _, _)
\* mergeBlocks passing over a block whose file does not exist
mergeBlocksSkipMissing(f, outFn, iterN, block, numberOfBlocks) ==
    IF block > numberOfBlocks THEN [raised |-> FALSE, fs |-> f]
    ELSE LET parFn == FileName_iter_par_block(iterN, block)
         IN  IF parFn \notin DOMAIN f
             THEN mergeBlocksSkipMissing(f, outFn, iterN, block + 1, numberOfBlocks)
             ELSE mergeBlocksSkipMissing(
                      RemoveFiles(WriteFile(f, outFn, f[outFn] \o DataRows(f[parFn])),
                                  {parFn}),
                      outFn, iterN, block + 1, numberOfBlocks)

RECURSIVE mergeBlocks(_, _, _, _, _)
\* the loop over the blocks: f1 is outFn, opened and holding the header
mergeBlocks(f, outFn, iterN, block, numberOfBlocks) ==
    IF block > numberOfBlocks THEN [raised |-> FALSE, fs |-> f]
    ELSE LET parFn == FileName_iter_par_block(iterN, block)
         IN  IF parFn \notin DOMAIN f
             THEN [raised |-> TRUE, fs |-> f]
             ELSE mergeBlocks(
                      RemoveFiles(WriteFile(f, outFn, f[outFn] \o DataRows(f[parFn])),
                                  {parFn}),
                      outFn, iterN, block + 1, numberOfBlocks)

\* moveFile(source, dest): raises when source does not exist
moveFile(f, source, dest) ==
    IF source \notin DOMAIN f
    THEN [raised |-> TRUE, fs |-> f]
    ELSE [raised |-> FALSE,
          fs |-> WriteFile(RemoveFiles(f, {source}), dest, f[source])]

mergeAllParFiles(f, iterN, numberOfBlocks) ==
    LET outFn == FileName_iter_par(iterN)
    IN  IF numberOfBlocks # 1
        THEN mergeBlocks(WriteFile(f, outFn, <<HeaderLine>>),
                         outFn, iterN, 1, numberOfBlocks)
        ELSE moveFile(f, FileName_iter_par_block(iterN, 1), outFn)

----------------------------------------------------------------------------
(* The initial state: a validated configuration, nothing inserted yet. *)

ContinueIters == {Last} \cup {FormatD(i) : i \in 1..(MaxPriorIters + 1)}

NoRamp == [on |-> FALSE]

NoConfig == [doContinue |-> FALSE]

NoValidation == [on |-> FALSE]

NoResample == [on |-> FALSE]

NoUnblur == [on |-> FALSE]

InitSide ==
    /\ validation = NoValidation
    /\ resample = NoResample
    /\ unblur = NoUnblur

\* numberOfMpi: 0 (the form's default, threads only) or an MPI count
MpiCounts == {0, MaxMpi}

FreshConfigs ==
    [numPtcls : 1..MaxParticles,
     numberOfThreads : 1..MaxThreads,
     numberOfMpi : MpiCounts,
     numberOfIterations : 1..MaxIters,
     numberOfClassAvg : {5},
     highResLimit1 : {RInt(40)},
     highResLimit2 : {RInt(8)},
     percUsed : {RInt(100)},
     autoPerc : {TRUE},
     doContinue : {FALSE},
     inputClassAvg : BOOLEAN,
     continueIter : {Last}]

ContinueConfigs ==
    [numPtcls : 1..MaxParticles,
     numberOfThreads : 1..MaxThreads,
     numberOfMpi : MpiCounts,
     numberOfIterations : 1..MaxIters,
     numberOfClassAvg : {5},
     highResLimit1 : {RInt(40)},
     highResLimit2 : {RInt(8)},
     percUsed : {RInt(100)},
     autoPerc : {TRUE},
     doContinue : {TRUE},
     inputClassAvg : {FALSE},
     continueIter : ContinueIters]

InitRun ==
    /\ stepStatus = <<>>
    /\ steps = <<>>
    /\ initIter = 0
    /\ finalIter = 0
    /\ currPtcl = 0
    /\ phase = "new"
    /\ jobs_list = <<>>
    /\ process_list = <<>>
    /\ procs = <<>>
    /\ fs = <<>>
    /\ links = <<>>
    /\ runLog = <<>>
    /\ outputs = <<>>

Init ==
    /\ \/ cfg \in FreshConfigs /\ prior = NoPrior
       \/ cfg \in ContinueConfigs /\ prior \in Priors
    /\ validate(cfg, prior) = Returned(<<>>)
    /\ InitRun
    /\ ramp = NoRamp
    /\ InitSide

----------------------------------------------------------------------------
(* The execution of the steps.  stepsExecutionMode is STEPS_SERIAL: a step  *)
(* starts when every step inserted before it has finished, and no step      *)
(* starts once a step has failed.                                           *)

RunFailed == \E j \in DOMAIN stepStatus : stepStatus[j] = "failed"

\* StepReady without the serial order: only the step's own prerequisites
StepReadyParallel(i) ==
    /\ stepStatus[i] = "new"
    /\ ~RunFailed
    /\ \A j \in steps[i].prerequisites : stepStatus[j] = "finished"

StepReady(i) ==
    /\ stepStatus[i] = "new"
    /\ ~RunFailed
    /\ \A j \in 1..(i - 1) : stepStatus[j] = "finished"

Finish(i) == stepStatus' = [stepStatus EXCEPT ![i] = "finished"]

Fail(i) == stepStatus' = [stepStatus EXCEPT ![i] = "failed"]

\* _insertAllSteps
InsertAllSteps ==
    /\ phase = "new"
    /\ LET ins == insertAllSteps(cfg, prior)
       IN  /\ steps' = ins.steps
           /\ initIter' = ins.initIter
           /\ finalIter' = ins.finalIter
           /\ stepStatus' = [i \in DOMAIN ins.steps |-> "new"]
    /\ currPtcl' = 1
    /\ phase' = "idle"
    /\ UNCHANGED <<cfg, prior, jobs_list, process_list, procs, fs, links,
                   runLog, outputs, ramp, sideVars>>

PriorPath(name) == [run |-> "continueRun", name |-> name]

\* continueStep(iterN)
continueStep(i) ==
    /\ phase = "idle"
    /\ StepReady(i)
    /\ steps[i].name = "continueStep"
    /\ LET iterN == steps[i].iterN - 1
           linked == {FileName_run_stack(0), FileName_iter_par(iterN),
                      FileName_iter_cls(iterN)}
       IN  links' = [n \in DOMAIN links \cup linked |->
                        IF n \in linked THEN PriorPath(n) ELSE links[n]]
    /\ Finish(i)
    /\ UNCHANGED <<cfg, prior, steps, initIter, finalIter, currPtcl, phase,
                   jobs_list, process_list, procs, fs, runLog, outputs, ramp, sideVars>>

\* convertInputStep
convertInputStep(i) ==
    /\ phase = "idle"
    /\ StepReady(i)
    /\ steps[i].name = "convertInputStep"
    /\ fs' = IF ~cfg.doContinue
             THEN LET stack == WriteFile(fs, FileName_run_stack(0), Binary)
                  IN  IF cfg.inputClassAvg
                      THEN WriteFile(stack, FileName_initial_cls, Binary)
                      ELSE stack
             ELSE fs
    /\ Finish(i)
    /\ UNCHANGED <<cfg, prior, steps, initIter, finalIter, currPtcl, phase,
                   jobs_list, process_list, procs, links, runLog, outputs, ramp, sideVars>>

\* writeInitParStep
writeInitParStep(i) ==
    /\ phase = "idle"
    /\ StepReady(i)
    /\ steps[i].name = "writeInitParStep"
    /\ fs' = WriteFile(fs, FileName_iter_par(1),
                       <<HeaderLine>> \o RowsOf(1, cfg.numPtcls))
    /\ Finish(i)
    /\ UNCHANGED <<cfg, prior, steps, initIter, finalIter, currPtcl, phase,
                   jobs_list, process_list, procs, links, runLog, outputs, ramp, sideVars>>

\* the dictionary makeInitClassesStep formats its command from
initClassesParams(c, paramsDic) ==
    LET percUsed == RMin(Rat(c.numberOfClassAvg * 300 * 100, c.numPtcls), RInt(100))
    IN  [paramsDic EXCEPT
           !.input_params = FileName_iter_par(1),
           !.input_cls = DevNull,
           !.output_cls = FileName_iter_cls(1),
           !.output_params = DevNull,
           !.percUsed = RDiv(percUsed, RInt(100)),
           !.dumpFn = DevNull]

\* makeInitClassesStep(paramsDic); runJob raises when refine2d fails
makeInitClassesStep(i) ==
    /\ phase = "idle"
    /\ StepReady(i)
    /\ steps[i].name = "makeInitClassesStep"
    /\ LET cmd == initClassesParams(cfg, steps[i].paramsDic)
       IN  /\ runLog' = Append(runLog, [program |-> "refine2d", iterN |-> 1,
                                        cmd |-> cmd])
           /\ \/ /\ Readable(cmd.input_stack)
                 /\ Readable(cmd.input_params)
                 /\ fs' = WriteFile(fs, cmd.output_cls, Binary)
                 /\ Finish(i)
              \/ /\ fs' = fs
                 /\ Fail(i)
    /\ UNCHANGED <<cfg, prior, steps, initIter, finalIter, currPtcl, phase,
                   jobs_list, process_list, procs, links, outputs, ramp, sideVars>>

\* refineParallelStep(iterN, paramsDic): entry, jobs_list = []
refineParallelStep(i) ==
    /\ phase = "idle"
    /\ StepReady(i)
    /\ steps[i].name = "refineParallelStep"
    /\ stepStatus' = [stepStatus EXCEPT ![i] = "running"]
    /\ phase' = "prepare"
    /\ jobs_list' = <<>>
    /\ process_list' = <<>>
    /\ UNCHANGED <<cfg, prior, steps, initIter, finalIter, currPtcl, procs, fs,
                   links, runLog, outputs, ramp, sideVars>>

RunningStep == CHOOSE i \in DOMAIN steps : stepStatus[i] = "running"

\* one turn of refineParallelStep's loop: prepareRefineStep(iterN, job, ...)
prepareRefineStepCall ==
    /\ phase = "prepare"
    /\ LET i == RunningStep
           jp == getJobsParams(cfg)
           job == Len(jobs_list) + 1
           paramsDic == IF job = 1 THEN steps[i].paramsDic ELSE jobs_list[job - 1]
           r == prepareRefineStep(cfg, finalIter, currPtcl, steps[i].iterN, job,
                                  jp.ptcls_per_job, paramsDic)
       IN  /\ jobs_list' = Append(jobs_list, r.paramsDic)
           /\ currPtcl' = r.currPtcl
           /\ phase' = IF job = jp.jobs THEN "launch" ELSE "prepare"
    /\ UNCHANGED <<cfg, prior, stepStatus, steps, initIter, finalIter,
                   process_list, procs, fs, links, runLog, outputs, ramp, sideVars>>

Pid(iterN, job) == <<iterN, job>>

\* Spawn with stdout=sys.stdout given at every launch
SpawnAllLogged(pid, cmd, logged) ==
    /\ procs' = [p \in DOMAIN procs \cup {pid} |->
                    IF p = pid THEN [state |-> "running", rc |-> 0,
                                     stdout |-> TRUE, cmd |-> cmd]
                               ELSE procs[p]]
    /\ process_list' = Append(process_list, pid)

Spawn(pid, cmd, logged) ==
    /\ procs' = [p \in DOMAIN procs \cup {pid} |->
                    IF p = pid THEN [state |-> "running", rc |-> 0,
                                     stdout |-> logged, cmd |-> cmd]
                               ELSE procs[p]]
    /\ process_list' = Append(process_list, pid)

\* _parallelWorker: create_subprocess_shell(job) for a job of job_list[:-1]
launchSilent ==
    /\ phase = "launch"
    /\ Len(process_list) + 1 < Len(jobs_list)
    /\ LET job == Len(process_list) + 1
       IN  Spawn(Pid(steps[RunningStep].iterN, job), jobs_list[job], FALSE)
    /\ UNCHANGED <<cfg, prior, stepStatus, steps, initIter, finalIter, currPtcl,
                   phase, jobs_list, fs, links, runLog, outputs, ramp, sideVars>>

\* _parallelWorker: create_subprocess_shell(job_list[-1], stdout=sys.stdout, ...)
launchLogged ==
    /\ phase = "launch"
    /\ Len(process_list) + 1 = Len(jobs_list)
    /\ LET job == Len(jobs_list)
       IN  Spawn(Pid(steps[RunningStep].iterN, job), jobs_list[job], TRUE)
    /\ phase' = "gather"
    /\ UNCHANGED <<cfg, prior, stepStatus, steps, initIter, finalIter, currPtcl,
                   jobs_list, fs, links, runLog, outputs, ramp, sideVars>>

\* gatherDone waiting for the last process only
gatherDoneLastOnly(pids) == procs[pids[Len(pids)]].state = "exited"

\* gatherDone with a timeout on the wait: it may return at any time
gatherDoneTimeout(pids) == TRUE

\* asyncio.gather(*[process.wait() ...]) returns when every process has exited
gatherDone(pids) == \A k \in DOMAIN pids : procs[pids[k]].state = "exited"

\* gatherReturns raising when a process ended with a non-zero status
gatherReturnsChecked ==
    /\ phase = "gather"
    /\ gatherDone(process_list)
    /\ IF \A k \in DOMAIN process_list : procs[process_list[k]].rc = 0
       THEN Finish(RunningStep)
       ELSE Fail(RunningStep)
    /\ phase' = "idle"
    /\ UNCHANGED <<cfg, prior, steps, initIter, finalIter, currPtcl, jobs_list,
                   process_list, procs, fs, links, runLog, outputs, ramp, sideVars>>

\* _parallelWorker returns and refineParallelStep with it
gatherReturns ==
    /\ phase = "gather"
    /\ gatherDone(process_list)
    /\ Finish(RunningStep)
    /\ phase' = "idle"
    /\ UNCHANGED <<cfg, prior, steps, initIter, finalIter, currPtcl, jobs_list,
                   process_list, procs, fs, links, runLog, outputs, ramp, sideVars>>


\* The refine2d program run on one block.  It exits with status 0 after
\* writing its parameter table (the header, the rows of its block that exist
\* among the particles, possibly a closing comment line) and its dump file,
\* which needs its three input files; or it exits with a non-zero status and
\* writes nothing.
Trailers == {<<>>, <<CommentLine>>}

blockTable(cmd, numPtcls, trailer) ==
    <<HeaderLine>>
    \o RowsOf(Max(cmd.firstPart, 1),
              IF cmd.lastPart > numPtcls THEN numPtcls ELSE cmd.lastPart)
    \o trailer

processExitsOk(pid) ==
    /\ procs[pid].state = "running"
    /\ LET cmd == procs[pid].cmd
       IN  /\ Readable(cmd.input_stack)
           /\ Readable(cmd.input_params)
           /\ Readable(cmd.input_cls)
           /\ \E trailer \in Trailers :
                 fs' = WriteFile(WriteFile(fs, cmd.output_params,
                                           blockTable(cmd, cfg.numPtcls, trailer)),
                                 cmd.dumpFn, Binary)
    /\ procs' = [procs EXCEPT ![pid].state = "exited", ![pid].rc = 0]
    /\ UNCHANGED <<cfg, prior, stepStatus, steps, initIter, finalIter, currPtcl,
                   phase, jobs_list, process_list, links, runLog, outputs, ramp, sideVars>>

processExitsFailed(pid) ==
    /\ procs[pid].state = "running"
    /\ procs' = [procs EXCEPT ![pid].state = "exited", ![pid].rc = 1]
    /\ UNCHANGED <<cfg, prior, stepStatus, steps, initIter, finalIter, currPtcl,
                   phase, jobs_list, process_list, fs, links, runLog, outputs, ramp, sideVars>>

\* the dictionary mergeStep formats the merge2d command from
mergeParams(iterN, jobs) ==
    [output_cls |-> FileName_iter_cls(iterN),
     dumpSeed |-> FileName_iter_cls_block_seed(iterN),
     numberOfJobs |-> jobs]

\* mergeStep(iterN); merge2d needs the dump file of every block
mergeStep(i) ==
    /\ phase = "idle"
    /\ StepReady(i)
    /\ steps[i].name = "mergeStep"
    /\ LET iterN == steps[i].iterN
           jobs == getJobsParams(cfg).jobs
           m == mergeAllParFiles(fs, iterN, jobs)
           cmd == mergeParams(iterN, jobs)
       IN  IF m.raised
           THEN /\ fs' = m.fs
                /\ runLog' = runLog
                /\ Fail(i)
           ELSE /\ runLog' = Append(runLog, [program |-> "merge2d", iterN |-> iterN,
                                             cmd |-> cmd])
                /\ \/ /\ \A b \in 1..jobs :
                             FileName_iter_cls_block(iterN, b) \in DOMAIN m.fs
                      /\ LET merged == WriteFile(m.fs, cmd.output_cls, Binary)
                         IN  fs' = RemoveFiles(merged, dumpPattern(merged, iterN))
                      /\ Finish(i)
                   \/ /\ fs' = m.fs
                      /\ Fail(i)
    /\ UNCHANGED <<cfg, prior, steps, initIter, finalIter, currPtcl, phase,
                   jobs_list, process_list, procs, links, outputs, ramp, sideVars>>

\* createOutputStep: the classes are filled from iteration _lastIter()
createOutputStep(i) ==
    /\ phase = "idle"
    /\ StepReady(i)
    /\ steps[i].name = "createOutputStep"
    /\ LET last == lastIter(DOMAIN fs \cup DOMAIN links)
       IN  IF last # None /\ Readable(FileName_iter_par(last))
           THEN /\ outputs' = Append(outputs, [name |-> "outputClasses",
                                               iterN |-> last])
                /\ Finish(i)
           ELSE /\ outputs' = outputs
                /\ Fail(i)
    /\ UNCHANGED <<cfg, prior, steps, initIter, finalIter, currPtcl, phase,
                   jobs_list, process_list, procs, fs, links, runLog, ramp, sideVars>>

Next ==
    \/ InsertAllSteps
    \/ \E i \in DOMAIN steps : continueStep(i)
    \/ \E i \in DOMAIN steps : convertInputStep(i)
    \/ \E i \in DOMAIN steps : writeInitParStep(i)
    \/ \E i \in DOMAIN steps : makeInitClassesStep(i)
    \/ \E i \in DOMAIN steps : refineParallelStep(i)
    \/ prepareRefineStepCall
    \/ launchSilent
    \/ launchLogged
    \/ \E pid \in DOMAIN procs : processExitsOk(pid)
    \/ \E pid \in DOMAIN procs : processExitsFailed(pid)
    \/ gatherReturns
    \/ \E i \in DOMAIN steps : mergeStep(i)
    \/ \E i \in DOMAIN steps : createOutputStep(i)

Spec == Init /\ [][Next]_vars

----------------------------------------------------------------------------
(* The block dispatcher alone, for larger particle sets: a fresh run of two *)
(* iterations that has completed iteration 1 and is about to run            *)
(* refineParallelStep(2); only the preparation of the commands is followed. *)

BlockParticles == 1..MaxBlockParticles \cup {1000}

BlockConfigs ==
    [numPtcls : BlockParticles,
     numberOfThreads : 1..MaxBlockJobs,
     numberOfMpi : {0},
     numberOfIterations : {2},
     numberOfClassAvg : {5},
     highResLimit1 : {RInt(40)},
     highResLimit2 : {RInt(8)},
     percUsed : {RInt(100)},
     autoPerc : {TRUE},
     doContinue : {FALSE},
     inputClassAvg : {FALSE},
     continueIter : {Last}]

InitBlocks ==
    /\ cfg \in BlockConfigs
    /\ prior = NoPrior
    /\ LET ins == insertAllSteps(cfg, prior)
       IN  /\ steps = ins.steps
           /\ initIter = ins.initIter
           /\ finalIter = ins.finalIter
           /\ stepStatus = [i \in DOMAIN ins.steps |->
                               IF i <= 3 THEN "finished" ELSE "new"]
           /\ runLog = <<[program |-> "refine2d", iterN |-> 1,
                          cmd |-> initClassesParams(cfg, ins.steps[3].paramsDic)]>>
    /\ currPtcl = 1
    /\ phase = "idle"
    /\ jobs_list = <<>>
    /\ process_list = <<>>
    /\ procs = <<>>
    /\ fs = WriteFile(WriteFile(WriteFile(<<>>, FileName_run_stack(0), Binary),
                                FileName_iter_par(1),
                                <<HeaderLine>> \o RowsOf(1, cfg.numPtcls)),
                      FileName_iter_cls(1), Binary)
    /\ links = <<>>
    /\ outputs = <<>>
    /\ ramp = NoRamp
    /\ InitSide

NextBlocks ==
    \/ \E i \in DOMAIN steps : refineParallelStep(i)
    \/ prepareRefineStepCall

SpecBlocks == InitBlocks /\ [][NextBlocks]_vars

----------------------------------------------------------------------------
(* One refineParallelStep with its processes, the merge and the output      *)
(* after it: a fresh run of two iterations that has completed iteration 1.  *)
(* The Python code runs on by itself: the loop of refineParallelStep, the   *)
(* launches of _parallelWorker and its return once asyncio.gather is done   *)
(* are taken whenever they stay possible.  Nothing makes a process exit.    *)

WorkerConfigs ==
    {c \in FreshConfigs : c.numberOfIterations = 2 /\ ~c.inputClassAvg}

InitWorker ==
    /\ cfg \in WorkerConfigs
    /\ prior = NoPrior
    /\ LET ins == insertAllSteps(cfg, prior)
       IN  /\ steps = ins.steps
           /\ initIter = ins.initIter
           /\ finalIter = ins.finalIter
           /\ stepStatus = [i \in DOMAIN ins.steps |->
                               IF i <= 3 THEN "finished" ELSE "new"]
           /\ runLog = <<[program |-> "refine2d", iterN |-> 1,
                          cmd |-> initClassesParams(cfg, ins.steps[3].paramsDic)]>>
    /\ currPtcl = 1
    /\ phase = "idle"
    /\ jobs_list = <<>>
    /\ process_list = <<>>
    /\ procs = <<>>
    /\ fs = WriteFile(WriteFile(WriteFile(<<>>, FileName_run_stack(0), Binary),
                                FileName_iter_par(1),
                                <<HeaderLine>> \o RowsOf(1, cfg.numPtcls)),
                      FileName_iter_cls(1), Binary)
    /\ links = <<>>
    /\ outputs = <<>>
    /\ ramp = NoRamp
    /\ InitSide

NextWorker ==
    \/ \E i \in DOMAIN steps : refineParallelStep(i)
    \/ prepareRefineStepCall
    \/ launchSilent
    \/ launchLogged
    \/ \E pid \in DOMAIN procs : processExitsOk(pid)
    \/ \E pid \in DOMAIN procs : processExitsFailed(pid)
    \/ gatherReturns
    \/ \E i \in DOMAIN steps : mergeStep(i)
    \/ \E i \in DOMAIN steps : createOutputStep(i)

WorkerFairness ==
    /\ WF_vars(prepareRefineStepCall)
    /\ WF_vars(launchSilent)
    /\ WF_vars(launchLogged)
    /\ WF_vars(gatherReturns)

SpecWorker == InitWorker /\ [][NextWorker]_vars /\ WorkerFairness

----------------------------------------------------------------------------
(* The two ramp functions alone, called as prepareRefineStep calls them for *)
(* the iterations 1, 2, ... of a run: _calcHighResLimit(total, ...) and     *)
(* _calcPercUsed(total, iterN - 1, ...).                                    *)

RampParts == {100, 1000, 2000}

RampLimits == {<<40, 8>>, <<30, 6>>}

\* percUsed is a free float of the form: a fraction, all, or more than all
RampPercs == {50, 100, 150}

InitRamp ==
    /\ \E t \in 1..MaxTotal, c \in 1..MaxCls, p \in RampParts, a \in BOOLEAN,
          f \in RampPercs, l \in RampLimits :
          ramp = [on |-> TRUE,
                  iter_total |-> t,
                  numCls |-> c,
                  numParts |-> p,
                  autoPerc |-> a,
                  percUsed |-> RInt(f),
                  highRes1 |-> RInt(l[1]),
                  highRes2 |-> RInt(l[2]),
                  iterN |-> 0,
                  highResOut |-> RInt(0),
                  percOut |-> RInt(0),
                  percPrev |-> RInt(0)]
    /\ cfg = NoConfig
    /\ prior = NoPrior
    /\ InitRun
    /\ InitSide

\* the ramp values for the next iteration, as prepareRefineStep computes them
rampCalls ==
    /\ ramp.on
    /\ ramp.iterN <= ramp.iter_total
    /\ LET n == ramp.iterN + 1
           perc == calcPercUsed(ramp.iter_total, n - 1, ramp.numCls,
                                ramp.numParts, ramp.percUsed, ramp.autoPerc)
       IN  ramp' = [ramp EXCEPT
                      !.iterN = n,
                      !.highResOut = calcHighResLimit(ramp.iter_total,
                                                      ramp.highRes1, ramp.highRes2),
                      !.percPrev = IF ramp.iterN = 0 THEN perc ELSE ramp.percOut,
                      !.percOut = perc]
    /\ UNCHANGED <<runVars, sideVars>>

NextRamp == rampCalls

SpecRamp == InitRamp /\ [][NextRamp]_vars

----------------------------------------------------------------------------
(* The form check alone: _validate called on a configuration as the user    *)
(* may have filled it in, with or without a previous run selected.          *)

\* the previous run as the form may point at it: none, another run (with or
\* without finished iterations) or this run itself
ValidatePriors ==
    {NoPrior}
    \cup {[selected |-> TRUE, isSelf |-> self, files |-> files] :
             self \in BOOLEAN,
             files \in {{}, {FileName_run_stack(0)}} \cup {p.files : p \in Priors}}

\* continueIter is free text: 'last', a number, or anything else
ValidateConfigs ==
    FreshConfigs
    \cup ContinueConfigs
    \cup {[c EXCEPT !.continueIter = <<"a">>] : c \in ContinueConfigs}

InitValidate ==
    /\ cfg \in ValidateConfigs
    /\ prior \in ValidatePriors
    /\ validation = [on |-> TRUE, done |-> FALSE, outcome |-> Returned(<<>>)]
    /\ InitRun
    /\ ramp = NoRamp
    /\ resample = NoResample
    /\ unblur = NoUnblur

\* the form calls _validate before the run is submitted
Validate ==
    /\ validation.on
    /\ ~validation.done
    /\ validation' = [validation EXCEPT !.done = TRUE,
                                        !.outcome = validate(cfg, prior)]
    /\ UNCHANGED <<runVars, ramp, resample, unblur>>

NextValidate == Validate

SpecValidate == InitValidate /\ [][NextValidate]_vars

----------------------------------------------------------------------------
(* The tilt-series resample protocol ProtTsResample                         *)
(* (src/cistem/protocols/protocol_ts_resample.py): one runTsResample step   *)
(* per input tilt series, then createOutputStep, run serially.              *)

OUTPUT_TS_NAME == "resampledTiltSeries"

OUTPUT_DIR == "extra/"

\* the names an instance of ProtTsResample answers to: the attributes and
\* methods of the class and the parameters of its form
ProtTsResampleAttributes ==
    {"tsList", "_defineParams", "_insertAllSteps", "runTsResample",
     "createOutputStep", "_genOutputSetOfTsgrams", "_citations", "_validate",
     "inTiltSeries", "newXsize", "newYsize"}

\* the file of a tilt series: its base name and its extension
TsFiles == {<<"ts1", ".st">>, <<"ts2", ".mrc">>}

\* the input set, by object id 1..n
TsInputs == UNION {[1..n -> TsFiles] : n \in 1..MaxTiltSeries}

TsSizes == {512, 928}

\* paramDict['tsOutName'], below the working directory
tsOutName(tsFile) == <<OUTPUT_DIR, "/", tsFile[1], "_resampled", tsFile[2]>>

\* _genOutputSetOfTsgrams: zip(tsList, inTsSet), locations counted from 1
genOutputSetOfTsgrams(tsList, inTsSet) ==
    [k \in 1..(IF Len(tsList) < Len(inTsSet) THEN Len(tsList) ELSE Len(inTsSet)) |->
        [location |-> <<k, tsList[k]>>, info |-> inTsSet[k]]]

InitResample ==
    /\ \E input \in TsInputs, size \in TsSizes :
          resample = [on |-> TRUE,
                      inTiltSeries |-> input,
                      newXsize |-> size,
                      newYsize |-> size,
                      steps |-> <<>>,
                      status |-> <<>>,
                      inserted |-> FALSE,
                      tsList |-> <<>>,
                      otherSteps |-> 0,
                      jobs |-> <<>>,
                      outputs |-> <<>>]
    /\ cfg = NoConfig
    /\ prior = NoPrior
    /\ InitRun
    /\ ramp = NoRamp
    /\ validation = NoValidation
    /\ unblur = NoUnblur

\* ProtTsResample._insertAllSteps
tsInsertAllSteps ==
    /\ resample.on
    /\ ~resample.inserted
    /\ LET n == Len(resample.inTiltSeries)
           inserted == [k \in 1..n |-> [name |-> "runTsResample", tsObjId |-> k]]
                       \o <<[name |-> "createOutputStep", tsObjId |-> 0]>>
       IN  resample' = [resample EXCEPT
                          !.steps = inserted,
                          !.status = [k \in DOMAIN inserted |-> "new"],
                          !.inserted = TRUE]
    /\ UNCHANGED <<runVars, ramp, validation, unblur>>

\* the steps run serially; a failed step ends the run
tsStepReady(i) ==
    /\ resample.status[i] = "new"
    /\ \A j \in DOMAIN resample.status : resample.status[j] # "failed"
    /\ \A j \in 1..(i - 1) : resample.status[j] = "finished"

\* runTsResample(tsObjId); runJob raises when resample fails
runTsResample(i) ==
    /\ resample.on
    /\ i \in DOMAIN resample.steps
    /\ tsStepReady(i)
    /\ resample.steps[i].name = "runTsResample"
    /\ LET tsFile == resample.inTiltSeries[resample.steps[i].tsObjId]
           job == [program |-> "resample", tsFile |-> tsFile,
                   tsOutName |-> tsOutName(tsFile),
                   newXsize |-> resample.newXsize, newYsize |-> resample.newYsize]
       IN  \/ resample' = [resample EXCEPT
                             !.jobs = Append(@, job),
                             !.tsList = Append(@, job.tsOutName),
                             !.status[i] = "finished"]
           \/ resample' = [resample EXCEPT
                             !.jobs = Append(@, job),
                             !.status[i] = "failed"]
    /\ UNCHANGED <<runVars, ramp, validation, unblur>>

\* runTsResample of another instance of ProtTsResample in the same process:
\* tsList is an attribute of the class, so self.tsList.append adds to the one
\* list all instances share
otherInstanceRunTsResample ==
    /\ resample.on
    /\ resample.otherSteps < MaxOtherSteps
    /\ \E tsFile \in TsFiles :
          resample' = [resample EXCEPT
                         !.tsList = Append(@, tsOutName(tsFile)),
                         !.otherSteps = @ + 1]
    /\ UNCHANGED <<runVars, ramp, validation, unblur>>

\* ProtTsResample.createOutputStep: a name the instance does not answer to
\* raises AttributeError
tsCreateOutputStep(i) ==
    /\ resample.on
    /\ i \in DOMAIN resample.steps
    /\ tsStepReady(i)
    /\ resample.steps[i].name = "createOutputStep"
    /\ IF "_genOutputSetOfTiltSeries" \notin ProtTsResampleAttributes
       THEN resample' = [resample EXCEPT !.status[i] = "failed"]
       ELSE LET labelledSet == genOutputSetOfTsgrams(resample.tsList,
                                                     resample.inTiltSeries)
                defined == Append(resample.outputs,
                                  [name |-> OUTPUT_TS_NAME, items |-> labelledSet])
            IN  resample' = [resample EXCEPT
                               !.outputs = defined,
                               !.status[i] =
                                   IF "inTsgrams" \notin ProtTsResampleAttributes
                                   THEN "failed" ELSE "finished"]
    /\ UNCHANGED <<runVars, ramp, validation, unblur>>

NextResample ==
    \/ tsInsertAllSteps
    \/ \E i \in 1..(MaxTiltSeries + 1) : runTsResample(i)
    \/ otherInstanceRunTsResample
    \/ \E i \in 1..(MaxTiltSeries + 1) : tsCreateOutputStep(i)

SpecResample == InitResample /\ [][NextResample]_vars

----------------------------------------------------------------------------
(* The movie alignment protocol ProtUnblur                                  *)
(* (src/cistem/protocols/protocol_unblur.py): one step per movie that calls *)
(* _processMovie, run in parallel, and the final waitForThreadStep that     *)
(* has all of them as prerequisites.                                        *)

\* what goes wrong in one call of _processMovie: nothing; _createLink or
\* _argsUnblur raises; runJob raises (unblur exits non-zero); moveFile of the
\* shifts file raises; _extraWork raises in the call itself
Faults(useWorkerThread) ==
    {"none", "setup", "job", "move"}
    \cup (IF useWorkerThread THEN {} ELSE {"extra"})

\* _processMovie with the failures of the try block propagating
processMovieUncaught(useWorkerThread, fault) ==
    IF fault = "none"
    THEN [raised |-> FALSE, logged |-> FALSE, mic |-> TRUE,
          thread |-> useWorkerThread]
    ELSE [raised |-> TRUE, logged |-> FALSE,
          mic |-> fault \in {"move", "extra"}, thread |-> FALSE]

\* _processMovie: whether it raises, whether it prints the error message,
\* whether unblur wrote the micrograph, whether a worker thread was started
processMovie(useWorkerThread, fault) ==
    IF fault = "setup"
    THEN [raised |-> TRUE, logged |-> FALSE, mic |-> FALSE, thread |-> FALSE]
    ELSE IF fault = "job"
    THEN [raised |-> FALSE, logged |-> TRUE, mic |-> FALSE, thread |-> FALSE]
    ELSE IF fault = "move"
    THEN [raised |-> FALSE, logged |-> TRUE, mic |-> TRUE, thread |-> FALSE]
    ELSE IF useWorkerThread
    THEN [raised |-> FALSE, logged |-> FALSE, mic |-> TRUE, thread |-> TRUE]
    ELSE [raised |-> FALSE, logged |-> fault = "extra", mic |-> TRUE,
          thread |-> FALSE]

FailedToAlign(m) == [msg |-> "ERROR: Failed to align movie %s", movie |-> m]

\* _insertFinalSteps(deps): waitForThreadStep after the steps of the movies
insertFinalSteps(deps) ==
    [name |-> "waitForThreadStep", movie |-> 0, prerequisites |-> deps]

InitUnblur ==
    /\ \E n \in 1..MaxMovies, thread \in BOOLEAN :
          unblur = [on |-> TRUE,
                    useWorkerThread |-> thread,
                    steps |-> [m \in 1..n |->
                                  [name |-> "processMovieStep", movie |-> m,
                                   prerequisites |-> {}]]
                              \o <<insertFinalSteps(1..n)>>,
                    status |-> [i \in 1..(n + 1) |-> "new"],
                    fault |-> [m \in 1..n |-> "pending"],
                    mics |-> {},
                    threads |-> [m \in 1..n |-> "none"],
                    log |-> <<>>]
    /\ cfg = NoConfig
    /\ prior = NoPrior
    /\ InitRun
    /\ ramp = NoRamp
    /\ validation = NoValidation
    /\ resample = NoResample

\* stepsExecutionMode is STEPS_PARALLEL: a step starts when its
\* prerequisites have finished, and no step starts once a step has failed
unblurStepReady(i) ==
    /\ unblur.status[i] = "new"
    /\ \A j \in DOMAIN unblur.status : unblur.status[j] # "failed"
    /\ \A j \in unblur.steps[i].prerequisites : unblur.status[j] = "finished"

\* the step of one movie: _processMovie(movie)
processMovieStep(i) ==
    /\ unblur.on
    /\ i \in DOMAIN unblur.steps
    /\ unblurStepReady(i)
    /\ unblur.steps[i].name = "processMovieStep"
    /\ \E fault \in Faults(unblur.useWorkerThread) :
          LET m == unblur.steps[i].movie
              r == processMovie(unblur.useWorkerThread, fault)
          IN  unblur' = [unblur EXCEPT
                           !.fault[m] = fault,
                           !.mics = IF r.mic THEN @ \cup {m} ELSE @,
                           !.threads[m] = IF r.thread THEN "running" ELSE @,
                           !.log = IF r.logged THEN Append(@, FailedToAlign(m)) ELSE @,
                           !.status[i] = IF r.raised THEN "failed" ELSE "finished"]
    /\ UNCHANGED <<runVars, ramp, validation, resample>>

\* the worker thread of a movie runs _extraWork to its end, or dies of an
\* exception nothing catches
extraWorkThread(m) ==
    /\ unblur.on
    /\ m \in DOMAIN unblur.threads
    /\ unblur.threads[m] = "running"
    /\ \E end \in {"done", "died"} :
          unblur' = [unblur EXCEPT !.threads[m] = end]
    /\ UNCHANGED <<runVars, ramp, validation, resample>>

\* waitForThreadStep: sleeps a minute when worker threads are used
waitForThreadStep(i) ==
    /\ unblur.on
    /\ i \in DOMAIN unblur.steps
    /\ unblurStepReady(i)
    /\ unblur.steps[i].name = "waitForThreadStep"
    /\ unblur' = [unblur EXCEPT !.status[i] = "finished"]
    /\ UNCHANGED <<runVars, ramp, validation, resample>>

NextUnblur ==
    \/ \E i \in 1..(MaxMovies + 1) : processMovieStep(i)
    \/ \E m \in 1..MaxMovies : extraWorkThread(m)
    \/ \E i \in 1..(MaxMovies + 1) : waitForThreadStep(i)

SpecUnblur == InitUnblur /\ [][NextUnblur]_vars

----------------------------------------------------------------------------
(* Properties of the block dispatcher. *)

\* every command of the iteration has been prepared
AllPrepared == phase \in {"launch", "gather"}

Jobs == getJobsParams(cfg).jobs

\* the indices of block k of the prepared commands
BlockIndices(k) == jobs_list[k].firstPart .. jobs_list[k].lastPart

\* C1: once the J commands of an iteration are prepared, every particle
\* index of 1..P lies in exactly one block and no block holds an index
\* outside 1..P.
C1_BlocksPartitionParticles ==
    AllPrepared =>
        /\ \A idx \in 1..cfg.numPtcls :
              Cardinality({k \in DOMAIN jobs_list : idx \in BlockIndices(k)}) = 1
        /\ \A k \in DOMAIN jobs_list : BlockIndices(k) \subseteq 1..cfg.numPtcls

\* C7 as stated: block 1 is [1, 1 + particlesPerJob] and every later block
\* starts at the end index of the block before it and ends particlesPerJob
\* later, clipped to the particle count; 1000 particles in 4 jobs give
\* [1,251], [251,501], [501,751], [751,1000].
C7_BlocksStartAtPreviousEnd ==
    LET ppj == getJobsParams(cfg).ptcls_per_job
    IN  /\ \A k \in DOMAIN jobs_list :
              IF k = 1
              THEN jobs_list[k].firstPart = 1 /\ jobs_list[k].lastPart = 1 + ppj
              ELSE /\ jobs_list[k].firstPart = jobs_list[k - 1].lastPart
                   /\ jobs_list[k].lastPart =
                          IF jobs_list[k].firstPart + ppj > cfg.numPtcls
                          THEN cfg.numPtcls
                          ELSE jobs_list[k].firstPart + ppj
        /\ (AllPrepared /\ cfg.numPtcls = 1000 /\ Jobs = 4) =>
              [k \in 1..4 |-> <<jobs_list[k].firstPart, jobs_list[k].lastPart>>]
                  = <<<<1, 251>>, <<251, 501>>, <<501, 751>>, <<751, 1000>>>>

\* C7 amended: block 1 is [1, 1 + particlesPerJob] and every later block
\* starts one past the end index of the block before it and ends
\* particlesPerJob later, clipped to the particle count; 1000 particles in
\* 4 jobs give [1,251], [252,502], [503,753], [754,1000].
C7_BlocksStartAfterPreviousEnd ==
    LET ppj == getJobsParams(cfg).ptcls_per_job
    IN  /\ \A k \in DOMAIN jobs_list :
              IF k = 1
              THEN jobs_list[k].firstPart = 1 /\ jobs_list[k].lastPart = 1 + ppj
              ELSE /\ jobs_list[k].firstPart = jobs_list[k - 1].lastPart + 1
                   /\ jobs_list[k].lastPart =
                          IF jobs_list[k].firstPart + ppj > cfg.numPtcls
                          THEN cfg.numPtcls
                          ELSE jobs_list[k].firstPart + ppj
        /\ (AllPrepared /\ cfg.numPtcls = 1000 /\ Jobs = 4) =>
              [k \in 1..4 |-> <<jobs_list[k].firstPart, jobs_list[k].lastPart>>]
                  = <<<<1, 251>>, <<252, 502>>, <<503, 753>>, <<754, 1000>>>>

C7_Witness ==
    /\ AllPrepared
    /\ cfg.numPtcls = 1000
    /\ Jobs = 4
    /\ jobs_list[4].firstPart = 754
    /\ jobs_list[4].lastPart = 1000

----------------------------------------------------------------------------
(* Ordering of the steps and of the block processes. *)

StepsNamed(name) == {i \in DOMAIN steps : steps[i].name = name}

Started(i) == stepStatus[i] # "new"

Finished(i) == stepStatus[i] = "finished"

\* every block 1..J of iteration n was launched and has exited
AllBlocksExited(n) ==
    \A job \in 1..Jobs :
        /\ Pid(n, job) \in DOMAIN procs
        /\ procs[Pid(n, job)].state = "exited"

\* C2: refineParallelStep(n) has returned only if all J processes it
\* launched have exited, and mergeStep(n) has started only if
\* refineParallelStep(n) has returned, hence only if all of them have exited.
C2_MergeAfterAllBlocksExited ==
    /\ \A i \in StepsNamed("refineParallelStep") :
          Finished(i) => AllBlocksExited(steps[i].iterN)
    /\ \A i \in StepsNamed("mergeStep") :
          Started(i) =>
              /\ \A j \in StepsNamed("refineParallelStep") :
                    steps[j].iterN = steps[i].iterN => Finished(j)
              /\ AllBlocksExited(steps[i].iterN)

\* a merge has started after several blocks that exited with different results
C2_Witness ==
    \E i \in StepsNamed("mergeStep") :
        /\ Started(i)
        /\ Jobs >= 2
        /\ procs[Pid(steps[i].iterN, 1)].rc # procs[Pid(steps[i].iterN, Jobs)].rc

\* the step that completes iteration n
Completes(i, n) ==
    /\ steps[i].iterN = n
    /\ steps[i].name = IF n = 1 THEN "makeInitClassesStep" ELSE "mergeStep"

\* C3: a block process of iteration n exists only if the step completing
\* iteration n-1 (mergeStep, or makeInitClassesStep for iteration 1), when
\* the run has one, has finished; and the running block processes are all of
\* one iteration.
C3_IterationsSerial ==
    /\ \A pid \in DOMAIN procs :
          \A i \in DOMAIN steps : Completes(i, pid[1] - 1) => Finished(i)
    /\ \A p \in DOMAIN procs, q \in DOMAIN procs :
          (procs[p].state = "running" /\ procs[q].state = "running")
              => p[1] = q[1]

\* blocks of iteration n+1 are running after the merge of iteration n
C3_Witness ==
    \E p \in DOMAIN procs, i \in StepsNamed("mergeStep") :
        /\ procs[p].state = "running"
        /\ steps[i].iterN = p[1] - 1
        /\ Finished(i)
        /\ Pid(steps[i].iterN, 1) \in DOMAIN procs

----------------------------------------------------------------------------
(* Properties of the ramp functions. *)

\* the plateau iteration of a run of T iterations
Plateau(T) == IF T >= 4 THEN (3 * T) \div 4 ELSE T

\* r1 + n / (plateau - 1) * (r2 - r1)
Interpolated(T, n, r1, r2) ==
    RAdd(r1, RMul(Rat(n, Plateau(T) - 1), RSub(r2, r1)))

StrictlyBetween(x, a, b) ==
    \/ RLt(a, x) /\ RLt(x, b)
    \/ RLt(b, x) /\ RLt(x, a)

\* C4: the resolution limit computed for iteration n of a run of T
\* iterations is the finish limit r2 when n >= plateau(T), and otherwise the
\* interpolated value r1 + n/(plateau-1) x (r2 - r1), which is strictly
\* between r1 and r2 (at n = plateau - 1 the interpolated value is r2
\* itself, so strictness is asked below that).
C4_HighResFollowsRamp ==
    (ramp.on /\ ramp.iterN >= 1) =>
        LET T == ramp.iter_total
            n == ramp.iterN
        IN  IF n >= Plateau(T)
            THEN REq(ramp.highResOut, ramp.highRes2)
            ELSE /\ REq(ramp.highResOut,
                        Interpolated(T, n, ramp.highRes1, ramp.highRes2))
                 /\ n < Plateau(T) - 1 =>
                        StrictlyBetween(ramp.highResOut, ramp.highRes1,
                                        ramp.highRes2)

\* C5: in auto mode, for a fixed total, class count and particle count, the
\* percent used computed for iterations-done d is at least the one computed
\* for d - 1.
C5_PercUsedMonotone ==
    (ramp.on /\ ramp.autoPerc /\ ramp.iterN >= 2) =>
        RLe(ramp.percPrev, ramp.percOut)

\* the percent used rises when the middle phase of a tier begins
C5_Witness ==
    /\ ramp.on
    /\ ramp.autoPerc
    /\ ramp.iter_total >= 30
    /\ ramp.iterN - 1 = 15
    /\ RLt(ramp.percPrev, ramp.percOut)
    /\ REq(ramp.percOut, RInt(30))

----------------------------------------------------------------------------
(* Properties of the merge of the parameter tables. *)

\* mergeStep i runs in this step and its _mergeAllParFiles does not raise
MergesTables(i) ==
    /\ steps[i].name = "mergeStep"
    /\ stepStatus[i] = "new"
    /\ stepStatus'[i] # "new"
    /\ runLog' # runLog

RECURSIVE BlockRowsFrom(_, _, _, _)
\* the data rows of the block files k..J of iteration n, block after block
BlockRowsFrom(f, n, k, J) ==
    IF k > J THEN <<>>
    ELSE DataRows(f[FileName_iter_par_block(n, k)]) \o BlockRowsFrom(f, n, k + 1, J)

RECURSIVE BlockRowCount(_, _, _, _)
BlockRowCount(f, n, k, J) ==
    IF k > J THEN 0
    ELSE Len(DataRows(f[FileName_iter_par_block(n, k)])) + BlockRowCount(f, n, k + 1, J)

\* the blocks launched for iteration n partition 1..P
LaunchedBlocksPartition(n) ==
    LET idxs(k) == procs[Pid(n, k)].cmd.firstPart .. procs[Pid(n, k)].cmd.lastPart
    IN  /\ \A idx \in 1..cfg.numPtcls :
              Cardinality({k \in 1..Jobs : idx \in idxs(k)}) = 1
        /\ \A k \in 1..Jobs : idxs(k) \subseteq 1..cfg.numPtcls

\* C6: when _mergeAllParFiles(n, J) succeeds, with J = 1 the merged table is
\* the block file, unchanged; with J > 1 it is the header line, once, followed
\* by the data rows of block 1, ..., block J in their order, so it has as
\* many data rows as the blocks together (P when the blocks partition 1..P).
C6_MergedTable ==
    [][\A i \in DOMAIN steps :
          MergesTables(i) =>
              LET n == steps[i].iterN
                  merged == fs'[FileName_iter_par(n)]
              IN  IF Jobs = 1
                  THEN merged = fs[FileName_iter_par_block(n, 1)]
                  ELSE /\ merged = <<HeaderLine>> \o BlockRowsFrom(fs, n, 1, Jobs)
                       /\ Len(SelectSeq(merged, StartsWithC)) = 1
                       /\ merged[1] = HeaderLine
                       /\ Len(DataRows(merged)) = BlockRowCount(fs, n, 1, Jobs)
                       /\ LaunchedBlocksPartition(n) =>
                              Len(DataRows(merged)) = cfg.numPtcls]_vars

\* several blocks, one of them with a closing comment line, have been merged
\* into a table of the header and the rows 1..P
C6_Witness ==
    \E i \in StepsNamed("mergeStep") :
        /\ Finished(i)
        /\ Jobs >= 2
        /\ cfg.numPtcls >= 3
        /\ fs[FileName_iter_par(steps[i].iterN)]
               = <<HeaderLine>> \o RowsOf(1, cfg.numPtcls)

----------------------------------------------------------------------------
(* Properties of the paths handed to the block processes. *)

\* C8 as stated: any two distinct blocks ever launched, of the same or of
\* different iterations, are given different output parameter tables,
\* different output class averages and different dump files.
C8_AllOutputPathsDiffer ==
    \A p \in DOMAIN procs, q \in DOMAIN procs :
        p # q =>
            /\ procs[p].cmd.output_params # procs[q].cmd.output_params
            /\ procs[p].cmd.output_cls # procs[q].cmd.output_cls
            /\ procs[p].cmd.dumpFn # procs[q].cmd.dumpFn

WrittenPaths(p) == {procs[p].cmd.output_params, procs[p].cmd.dumpFn}

\* C8 amended: any two distinct blocks ever launched are given different
\* output parameter tables and different dump files, none of them the
\* output class averages named in a command; the output class averages path
\* is the same for the blocks of one iteration and differs between
\* iterations.
C8_BlockPathsDiffer ==
    \A p \in DOMAIN procs, q \in DOMAIN procs :
        /\ procs[p].cmd.output_params # procs[p].cmd.dumpFn
        /\ procs[q].cmd.output_cls \notin WrittenPaths(p)
        /\ p # q =>
              /\ WrittenPaths(p) \cap WrittenPaths(q) = {}
              /\ (procs[p].cmd.output_cls = procs[q].cmd.output_cls) <=> (p[1] = q[1])

\* two blocks of one iteration and a block of another have been launched
C8_Witness ==
    \E p \in DOMAIN procs, q \in DOMAIN procs, r \in DOMAIN procs :
        /\ p # q
        /\ p[1] = q[1]
        /\ r[1] # p[1]
        /\ procs[p].state = "running"
        /\ procs[q].state = "running"

----------------------------------------------------------------------------
(* Properties of a merge that finds a block file missing. *)

\* mergeStep i runs in this step while the table of some block is missing
MergesWithMissingBlock(i) ==
    /\ steps[i].name = "mergeStep"
    /\ stepStatus[i] = "new"
    /\ stepStatus'[i] # "new"
    /\ \E b \in 1..Jobs : FileName_iter_par_block(steps[i].iterN, b) \notin DOMAIN fs

\* C9: a mergeStep that finds the parameter table of a block missing fails
\* without running merge2d, and once a step has failed no step starts, no
\* job runs, no process is launched and no output is registered.
C9_MissingBlockFailsRun ==
    [][/\ \A i \in DOMAIN steps :
             MergesWithMissingBlock(i) =>
                 /\ stepStatus'[i] = "failed"
                 /\ runLog' = runLog
       /\ RunFailed =>
             /\ stepStatus' = stepStatus
             /\ runLog' = runLog
             /\ outputs' = outputs
             /\ DOMAIN procs' = DOMAIN procs]_vars

MergeJobs(n) ==
    {k \in DOMAIN runLog : runLog[k].program = "merge2d" /\ runLog[k].iterN = n}

\* a merge of several blocks has failed on a missing table, before merge2d,
\* and the steps after it have not started
C9_Witness ==
    \E i \in StepsNamed("mergeStep") :
        /\ stepStatus[i] = "failed"
        /\ Jobs >= 2
        /\ MergeJobs(steps[i].iterN) = {}
        /\ \E b \in 1..Jobs : procs[Pid(steps[i].iterN, b)].rc = 0
        /\ \A j \in DOMAIN steps : j > i => stepStatus[j] = "new"
        /\ outputs = <<>>

----------------------------------------------------------------------------
(* Properties of a continued run. *)

\* the last completed iteration of the previous run: the highest n whose
\* merged parameter table exists
LastCompleted(files) ==
    SetMax({0} \cup {n \in 1..(MaxPriorIters + 1) : FileName_iter_par(n) \in files})

\* C10: in a continued run, with r the previous run's last iteration for
\* 'last' and the number given otherwise, continueStep links the previous
\* run's particle stack and its parameter table and class averages of
\* iteration r under the same names, the first iteration run is r + 1, and
\* its commands read the linked files of iteration r.
C10_ContinuesAfterLastIteration ==
    cfg.doContinue =>
        LET r == IF cfg.continueIter = Last THEN LastCompleted(prior.files)
                                            ELSE ParseInt(cfg.continueIter)
            linked == {FileName_run_stack(0), FileName_iter_par(r),
                       FileName_iter_cls(r)}
        IN  /\ \A i \in StepsNamed("continueStep") :
                  Finished(i) =>
                      \A name \in linked :
                          name \in DOMAIN links /\ links[name] = PriorPath(name)
            /\ phase # "new" =>
                  /\ initIter = r + 1
                  /\ \A i \in DOMAIN steps : steps[i].iterN > 0 => steps[i].iterN >= r + 1
            /\ \A pid \in DOMAIN procs :
                  pid[1] = initIter =>
                      /\ procs[pid].cmd.input_stack = FileName_run_stack(0)
                      /\ procs[pid].cmd.input_params = FileName_iter_par(r)
                      /\ procs[pid].cmd.input_cls = FileName_iter_cls(r)

----------------------------------------------------------------------------
(* Properties of _lastIter during a run. *)

\* the entries of this run's own extra directory
OwnNames == DOMAIN fs \cup DOMAIN links

\* a merged parameter table: classification_input_par_<n>.par
IsMergedTable(f) ==
    /\ Len(f) >= 3
    /\ f[1] = ParPrefix
    /\ f[Len(f)] = ".par"
    /\ \A k \in 2..(Len(f) - 1) : IsDigit(f[k])

TableIndex(f) == ParseInt(SubSeq(f, 2, Len(f) - 1))

MergedTables(names) == {f \in names : IsMergedTable(f)}

HighestTable(names) == SetMax({TableIndex(f) : f \in MergedTables(names)})

\* C11: at any point during or after a run whose Parameters directory holds
\* a merged parameter table, _lastIter() returns the highest n for which the
\* merged table of iteration n exists there.
C11_LastIterIsLastCompleted ==
    (phase # "new" /\ MergedTables(OwnNames) # {}) =>
        lastIter(OwnNames) = HighestTable(OwnNames)

----------------------------------------------------------------------------
(* Properties of the first classification job of a fresh run. *)

\* C12: in a fresh run the first refine2d job reads the supplied starting
\* class averages as its input class averages when inputClassAvg is set, and
\* no input class averages (/dev/null) only when none are supplied.
C12_SuppliedAveragesAreInput ==
    (~cfg.doContinue /\ phase # "new") =>
        \A k \in DOMAIN runLog :
            (runLog[k].program = "refine2d"
                /\ \A j \in 1..(k - 1) : runLog[j].program # "refine2d") =>
                IF cfg.inputClassAvg
                THEN runLog[k].cmd.input_cls = FileName_initial_cls
                ELSE runLog[k].cmd.input_cls = DevNull

----------------------------------------------------------------------------
(* Properties of the iterations of a run. *)

IterStepNames ==
    {"writeInitParStep", "makeInitClassesStep", "refineParallelStep", "mergeStep"}

IterSteps == {i \in DOMAIN steps : steps[i].name \in IterStepNames}

PlannedIters == {steps[i].iterN : i \in IterSteps}

\* the step that begins iteration n
Begins(i, n) ==
    /\ steps[i].iterN = n
    /\ steps[i].name = IF n = 1 THEN "writeInitParStep" ELSE "refineParallelStep"

\* the jobs that complete iteration n: refine2d for iteration 1, merge2d after
CompletingJobs(n) ==
    {k \in DOMAIN runLog :
        /\ runLog[k].iterN = n
        /\ runLog[k].program = IF n = 1 THEN "refine2d" ELSE "merge2d"}

\* C13: a run with numberOfIterations = N has steps for exactly the
\* iterations initIter, ..., initIter + N - 1 (initIter = 1 when fresh), one
\* beginning and one completing step each, in increasing order, and one
\* createOutputStep, the last step; the steps run in that order, every
\* iteration completes at most once, and createOutputStep starts only after
\* all N iterations have completed, each exactly once.
C13_RunsNIterations ==
    phase # "new" =>
        /\ ~cfg.doContinue => initIter = 1
        /\ PlannedIters = initIter..(initIter + cfg.numberOfIterations - 1)
        /\ Cardinality(PlannedIters) = cfg.numberOfIterations
        /\ \A n \in PlannedIters :
              /\ Cardinality({i \in DOMAIN steps : Begins(i, n)}) = 1
              /\ Cardinality({i \in DOMAIN steps : Completes(i, n)}) = 1
              /\ Cardinality(CompletingJobs(n)) <= 1
        /\ \A i \in IterSteps, j \in IterSteps :
              i < j => steps[i].iterN <= steps[j].iterN
        /\ StepsNamed("createOutputStep") = {Len(steps)}
        /\ \A i \in DOMAIN steps, j \in DOMAIN steps :
              (i < j /\ Started(j)) => Finished(i)
        /\ \A k \in DOMAIN runLog, l \in DOMAIN runLog :
              k < l => runLog[k].iterN <= runLog[l].iterN
        /\ Started(Len(steps)) =>
              \A n \in PlannedIters :
                  /\ \E i \in DOMAIN steps : Completes(i, n) /\ Finished(i)
                  /\ Cardinality(CompletingJobs(n)) = 1

\* a continued run of two iterations has completed both and registered its
\* output
C13_Witness ==
    /\ cfg.doContinue
    /\ cfg.numberOfIterations = 2
    /\ phase # "new"
    /\ Finished(Len(steps))
    /\ Cardinality({k \in DOMAIN runLog : runLog[k].program = "merge2d"}) = 2
    /\ Len(outputs) = 1

----------------------------------------------------------------------------
(* Properties of _validate. *)

\* the iteration asked for in continueIter, 'last' being the last completed
Requested(c, p) ==
    IF c.continueIter = Last THEN LastCompleted(p.files)
                             ELSE ParseInt(c.continueIter)

\* C15: _validate never raises and returns a list of messages, also with
\* 'continue' enabled and no previous run selected or a previous run without
\* a finished iteration; the list is non-empty when the selected run is the
\* run itself or when the requested iteration is greater than the previous
\* run's last iteration.
C15_ValidateNeverRaises ==
    (validation.on /\ validation.done) =>
        /\ ~validation.outcome.raised
        /\ (cfg.doContinue /\ prior.selected /\ prior.isSelf) =>
              validation.outcome.errors # <<>>
        /\ (cfg.doContinue /\ prior.selected /\ IsNumber(cfg.continueIter)) =>
              (Requested(cfg, prior) > LastCompleted(prior.files) =>
                  validation.outcome.errors # <<>>)

----------------------------------------------------------------------------
(* Properties of the range of _calcPercUsed. *)

\* C16: the value _calcPercUsed returns lies in [0,100], for every total,
\* iterations-done, class count, particle count, configured percentage and
\* either value of the auto flag.
C16_PercUsedInRange ==
    (ramp.on /\ ramp.iterN >= 1) =>
        /\ RLe(RInt(0), ramp.percOut)
        /\ RLe(ramp.percOut, RInt(100))

\* iterations-done d is in the middle phase of the tier of total T
MiddlePhase(T, d) ==
    /\ T >= 10
    /\ d >= (IF T < 20 THEN 5 ELSE IF T < 30 THEN 10 ELSE 15)
    /\ d < T - 5

\* C20: in auto mode, while d is in the middle phase of its tier, the
\* percent used returned never exceeds 30.
C20_MiddlePhaseAtMost30 ==
    (ramp.on /\ ramp.autoPerc /\ ramp.iterN >= 1
        /\ MiddlePhase(ramp.iter_total, ramp.iterN - 1)) =>
        RLe(ramp.percOut, RInt(30))

----------------------------------------------------------------------------
(* Properties of _parallelWorker. *)

\* the blocks of iteration n launched so far
Launched(n) == {job \in 1..Jobs : Pid(n, job) \in DOMAIN procs}

Logged(n) == {job \in Launched(n) : procs[Pid(n, job)].stdout}

\* C17: of the J processes launched for a job list, the last one has its
\* output connected to the caller's output and every other one has not; once
\* all are launched, exactly one of the J is connected.
C17_OnlyLastJobLogged ==
    \A i \in StepsNamed("refineParallelStep") :
        LET n == steps[i].iterN
        IN  /\ \A job \in Launched(n) : procs[Pid(n, job)].stdout <=> (job = Jobs)
            /\ (Started(i) /\ (Finished(i) \/ phase = "gather")) =>
                  /\ Launched(n) = 1..Jobs
                  /\ Cardinality(Logged(n)) = 1
                  /\ Cardinality(Launched(n) \ Logged(n)) = Jobs - 1

\* three processes are launched: the first two silent, the third logged
C17_Witness ==
    \E i \in StepsNamed("refineParallelStep") :
        /\ phase = "gather"
        /\ stepStatus[i] = "running"
        /\ Jobs = 3
        /\ Logged(steps[i].iterN) = {3}
        /\ Launched(steps[i].iterN) = {1, 2, 3}

\* C18: a running refineParallelStep never fails, whatever statuses its
\* processes exit with; it returns when all J have exited, and the step then
\* ready to run is mergeStep of the same iteration.
C18_ExitStatusNotActioned ==
    [][\A i \in StepsNamed("refineParallelStep") :
          stepStatus[i] = "running" =>
              /\ stepStatus'[i] \in {"running", "finished"}
              /\ stepStatus'[i] = "finished" =>
                    /\ AllBlocksExited(steps[i].iterN)
                    /\ steps[i + 1].name = "mergeStep"
                    /\ steps[i + 1].iterN = steps[i].iterN
                    /\ StepReady(i + 1)']_vars

\* a refineParallelStep whose processes all exited with a non-zero status
\* has finished and mergeStep of its iteration has started
C18_Witness ==
    \E i \in StepsNamed("refineParallelStep") :
        /\ Finished(i)
        /\ Jobs >= 2
        /\ \A job \in 1..Jobs : procs[Pid(steps[i].iterN, job)].rc # 0
        /\ Started(i + 1)
        /\ steps[i + 1].name = "mergeStep"

----------------------------------------------------------------------------
(* Properties of the resample protocol. *)

\* C14: once a runTsResample step has completed for every input tilt series
\* and createOutputStep has run, createOutputStep has completed and the
\* output 'resampledTiltSeries' is registered, holding one resampled tilt
\* series per input tilt series, in input order.
C14_ResampledOutputRegistered ==
    (resample.on /\ resample.inserted) =>
        LET n == Len(resample.inTiltSeries)
        IN  ((\A k \in 1..n : resample.status[k] = "finished")
                /\ resample.status[n + 1] # "new") =>
                /\ resample.status[n + 1] = "finished"
                /\ resample.outputs =
                       <<[name |-> "resampledTiltSeries",
                          items |-> [k \in 1..n |->
                                        [location |-> <<k, tsOutName(resample.inTiltSeries[k])>>,
                                         info |-> resample.inTiltSeries[k]]]]>>

----------------------------------------------------------------------------
(* Properties of the movie alignment protocol. *)

\* the failures of the alignment process and of the later work of the call
CaughtFaults == {"job", "move", "extra"}

Movies == 1..(Len(unblur.steps) - 1)

ErrorsLogged(m) == {k \in DOMAIN unblur.log : unblur.log[k] = FailedToAlign(m)}

\* C19: when the alignment process, or later work in the same call without a
\* worker thread, fails for a movie, the movie's step finishes normally with
\* one error message logged; such a failure never fails a step, so every
\* step of another movie not yet run stays ready and the final step is ready
\* once the steps of all movies have finished.
C19_AlignFailureOnlyLogged ==
    unblur.on =>
        /\ \A m \in Movies :
              unblur.fault[m] \in CaughtFaults =>
                  /\ unblur.status[m] = "finished"
                  /\ Cardinality(ErrorsLogged(m)) = 1
        /\ (\E i \in DOMAIN unblur.status : unblur.status[i] = "failed") =>
              \E m \in Movies : unblur.fault[m] = "setup"
        /\ (\A m \in Movies : unblur.fault[m] # "setup") =>
              /\ \A m \in Movies : unblur.status[m] = "new" => unblurStepReady(m)
              /\ ((\A m \in Movies : unblur.status[m] = "finished")
                     /\ unblur.status[Len(unblur.steps)] = "new") =>
                     unblurStepReady(Len(unblur.steps))

\* the alignment of one movie and the later work of another have failed and
\* the final step has run
C19_Witness ==
    /\ unblur.on
    /\ Len(unblur.steps) = 3
    /\ unblur.fault[1] = "job"
    /\ unblur.fault[2] = "extra"
    /\ Len(unblur.log) = 2
    /\ unblur.status[3] = "finished"

----------------------------------------------------------------------------
(* Properties of the files mergeStep leaves. *)

\* mergeStep i runs in this step and completes
MergeCompletes(i) ==
    /\ steps[i].name = "mergeStep"
    /\ stepStatus[i] = "new"
    /\ stepStatus'[i] = "finished"

\* the per-block files of iteration n: parameter tables and dump files
BlockFilesOf(n) ==
    {FileName_iter_par_block(n, b) : b \in 1..Jobs}
    \cup {FileName_iter_cls_block(n, b) : b \in 1..Jobs}

\* C21: when mergeStep(n) completes, no per-block parameter table and no
\* per-block dump file of iteration n remains, the merged parameter table
\* and the class averages of iteration n exist, and every other file and
\* every link is left as it was.
C21_MergeRemovesBlockFiles ==
    [][\A i \in DOMAIN steps :
          MergeCompletes(i) =>
              LET n == steps[i].iterN
                  merged == {FileName_iter_par(n), FileName_iter_cls(n)}
              IN  /\ BlockFilesOf(n) \cap DOMAIN fs' = {}
                  /\ merged \subseteq DOMAIN fs'
                  /\ \A name \in DOMAIN fs \ BlockFilesOf(n) :
                        /\ name \in DOMAIN fs'
                        /\ name \notin merged => fs'[name] = fs[name]
                  /\ DOMAIN fs' \subseteq DOMAIN fs \cup merged
                  /\ links' = links]_vars

\* the merge of an iteration of several blocks has completed beside the
\* parameter table of the iteration before it
C21_Witness ==
    \E i \in StepsNamed("mergeStep") :
        /\ Finished(i)
        /\ Jobs >= 2
        /\ FileName_iter_par(steps[i].iterN) \in DOMAIN fs
        /\ FileName_iter_par(steps[i].iterN - 1) \in DOMAIN fs
        /\ BlockFilesOf(steps[i].iterN) \cap DOMAIN fs = {}
        /\ \A b \in 1..Jobs : procs[Pid(steps[i].iterN, b)].rc = 0

----------------------------------------------------------------------------
(* Properties of the wait of refineParallelStep. *)

SomeLaunchedRunning ==
    \E k \in DOMAIN process_list : procs[process_list[k]].state = "running"

AllLaunchedExited ==
    \A k \in DOMAIN process_list : procs[process_list[k]].state = "exited"

\* C22: while a launched process has not exited, refineParallelStep has not
\* returned and no later step has started; the launches always come to the
\* wait, and once every launched process has exited the step returns.
C22_NoTimeout ==
    /\ [](SomeLaunchedRunning =>
             \E i \in StepsNamed("refineParallelStep") :
                 /\ stepStatus[i] = "running"
                 /\ \A j \in DOMAIN steps : j > i => stepStatus[j] = "new")
    /\ (phase \in {"prepare", "launch"}) ~> (phase = "gather")
    /\ (phase = "gather" /\ AllLaunchedExited) ~> (phase = "idle")

\* the step waits: one process has exited, another has not
C22_Witness ==
    /\ phase = "gather"
    /\ Len(process_list) >= 2
    /\ procs[process_list[1]].state = "running"
    /\ procs[process_list[Len(process_list)]].state = "exited"
    /\ \E i \in StepsNamed("refineParallelStep") : stepStatus[i] = "running"

----------------------------------------------------------------------------
(* Properties of the number of block processes. *)

WorkerSlots == Max(cfg.numberOfThreads, cfg.numberOfMpi)

ProcessesOf(n) == {pid \in DOMAIN procs : pid[1] = n}

BlockPids(n) == [k \in 1..WorkerSlots |-> Pid(n, k)]

\* C23: refineParallelStep of iteration n launches one process per block
\* 1..J, J = max(numberOfThreads, numberOfMpi); the wait begins only when all
\* J have been launched, and the merge2d command of mergeStep carries J.
C23_LaunchesMaxThreadsMpiBlocks ==
    /\ \A i \in StepsNamed("refineParallelStep") :
          LET n == steps[i].iterN
          IN  /\ stepStatus[i] = "new" => ProcessesOf(n) = {}
              /\ (stepStatus[i] = "running" /\ phase \in {"prepare", "launch"}) =>
                    /\ Len(process_list) < WorkerSlots
                    /\ ProcessesOf(n) = {process_list[k] : k \in DOMAIN process_list}
                    /\ \A k \in DOMAIN process_list : process_list[k] = Pid(n, k)
              /\ (stepStatus[i] = "running" /\ phase = "gather") =>
                    /\ process_list = BlockPids(n)
                    /\ ProcessesOf(n) = {Pid(n, k) : k \in 1..WorkerSlots}
              /\ stepStatus[i] \notin {"new", "running"} =>
                    ProcessesOf(n) = {Pid(n, k) : k \in 1..WorkerSlots}
    /\ \A k \in DOMAIN runLog :
          runLog[k].program = "merge2d" => runLog[k].cmd.numberOfJobs = WorkerSlots

\* three block processes run at once in the iteration after one whose merge2d
\* was told of three blocks
C23_Witness ==
    /\ WorkerSlots = 3
    /\ cfg.numberOfThreads < cfg.numberOfMpi
    /\ phase = "gather"
    /\ \A k \in DOMAIN process_list : procs[process_list[k]].state = "running"
    /\ \E k \in DOMAIN runLog :
          /\ runLog[k].program = "merge2d"
          /\ runLog[k].iterN + 1 = process_list[1][1]

----------------------------------------------------------------------------
(* Properties of the inputs of an iteration. *)

\* the step of the given name and iteration has finished
StepDone(name, n) ==
    \E i \in StepsNamed(name) : steps[i].iterN = n /\ Finished(i)

\* the file was written by the run's own iteration n
ProducedBy(name, n) ==
    /\ name \in DOMAIN fs
    /\ IF n = 1 THEN StepDone("makeInitClassesStep", 1) ELSE StepDone("mergeStep", n)

\* the file is the link continueStep made before iteration n + 1
LinkedFor(name, n) ==
    /\ name \in DOMAIN links
    /\ links[name] = PriorPath(name)
    /\ StepDone("continueStep", n + 1)

----------------------------------------------------------------------------
(* Properties of the single block ranges. *)

\* C25: every prepared block command has a non-empty range inside the
\* particle set: 1 <= firstPart <= lastPart <= P.
C25_BlockRangesValid ==
    \A k \in DOMAIN jobs_list :
       /\ 1 <= jobs_list[k].firstPart
       /\ jobs_list[k].firstPart <= jobs_list[k].lastPart
       /\ jobs_list[k].lastPart <= cfg.numPtcls

----------------------------------------------------------------------------
(* Properties of a merge that fails. *)

BlockTablesOf(n) == {FileName_iter_par_block(n, b) : b \in 1..WorkerSlots}

\* mergeStep(i) runs and _mergeAllParFiles raises on a missing block table
MergeRaisesOnMissingBlock(i) ==
    /\ steps[i].name = "mergeStep"
    /\ stepStatus[i] = "new"
    /\ stepStatus'[i] = "failed"
    /\ ~(BlockTablesOf(steps[i].iterN) \subseteq DOMAIN fs)

\* C26: when _mergeAllParFiles fails on a missing block table, no merged
\* table of the iteration exists afterwards and every block table that
\* existed before is still there.
C26_FailedMergeLeavesFiles ==
    [][\A i \in DOMAIN steps :
          MergeRaisesOnMissingBlock(i) =>
             LET n == steps[i].iterN
             IN  /\ FileName_iter_par(n) \notin DOMAIN fs'
                 /\ BlockTablesOf(n) \cap DOMAIN fs \subseteq DOMAIN fs']_vars

----------------------------------------------------------------------------
(* Properties of the list of resampled files. *)

\* C27: when the instance comes to build its output, tsList holds the files
\* of its own runTsResample steps, one per step, in execution order, and
\* nothing a step of another instance has added.
C27_TsListIsOwnFiles ==
    (resample.on /\ resample.inserted) =>
        LET n == Len(resample.inTiltSeries)
        IN  (\A k \in 1..n : resample.status[k] = "finished") =>
                resample.tsList =
                    [k \in 1..n |-> tsOutName(resample.inTiltSeries[k])]

----------------------------------------------------------------------------
(* Properties of the worker threads of the alignment protocol. *)

\* C28: with worker threads, once waitForThreadStep has returned no
\* extra-work thread started by _processMovie is still running.
C28_ThreadsFinishedAfterWait ==
    (unblur.on /\ unblur.useWorkerThread) =>
        (unblur.status[Len(unblur.steps)] = "finished" =>
            \A m \in Movies : unblur.threads[m] # "running")

----------------------------------------------------------------------------
(* Properties of the total the ramps are called with. *)

\* C29: when prepareRefineStep has prepared a command, the total it has
\* handed to _calcHighResLimit and _calcPercUsed is the index of the last
\* iteration of the run, initIter + numberOfIterations - 1, which is
\* numberOfIterations in a fresh run.
C29_RampTotalIsLastIteration ==
    (phase \in {"prepare", "launch", "gather"} /\ jobs_list # <<>>) =>
        /\ iterTotalArgument(finalIter) = SetMax(PlannedIters)
        /\ iterTotalArgument(finalIter) = initIter + cfg.numberOfIterations - 1
        /\ ~cfg.doContinue => iterTotalArgument(finalIter) = cfg.numberOfIterations

----------------------------------------------------------------------------
(* Properties of the block ranges across iterations. *)

\* the range of a prepared or launched command
RangeOf(cmd) == <<cmd.firstPart, cmd.lastPart>>

\* the range of block k as the particle count and the job count alone give it
RECURSIVE RangeByCounts(_, _, _)
RangeByCounts(numPtcls, ptcls_per_job, k) ==
    IF k = 1 THEN <<1, 1 + ptcls_per_job>>
    ELSE LET first == RangeByCounts(numPtcls, ptcls_per_job, k - 1)[2] + 1
         IN  <<first, IF first + ptcls_per_job > numPtcls
                      THEN numPtcls ELSE first + ptcls_per_job>>

\* C30: in every iteration the ranges of the prepared and of the launched
\* block commands are those the particle count and the job count give,
\* whatever currPtcl held when the iteration began, so two iterations of a
\* run have the same ranges block by block.
C30_RangesDependOnCountsOnly ==
    LET ppj == IF cfg.numPtcls - WorkerSlots < WorkerSlots
               THEN 1 ELSE PyRound(cfg.numPtcls, WorkerSlots)
    IN  /\ \A k \in DOMAIN jobs_list :
              RangeOf(jobs_list[k]) = RangeByCounts(cfg.numPtcls, ppj, k)
        /\ \A pid \in DOMAIN procs :
              RangeOf(procs[pid].cmd) = RangeByCounts(cfg.numPtcls, ppj, pid[2])
        /\ \A p \in DOMAIN procs, q \in DOMAIN procs :
              p[2] = q[2] => RangeOf(procs[p].cmd) = RangeOf(procs[q].cmd)

\* a second iteration has prepared its blocks after the first one left the
\* counter past its last block
C30_Witness ==
    /\ phase \in {"launch", "gather"}
    /\ WorkerSlots >= 2
    /\ Len(jobs_list) = WorkerSlots
    /\ \E pid \in DOMAIN procs : pid[1] < steps[RunningStep].iterN
    /\ currPtcl > 1

============================================================================
